---- MODULE Spec2Model ----
(***************************************************************************)
(* Model of kernel.c: the boot trampoline (boot), the initialization       *)
(* routine (kernel_main), the SBI call gateway (sbi_call), the console     *)
(* primitive (putchar) and the byte-fill routine (memset).                 *)
(*                                                                         *)
(* The program is one thread of control.  pc is the statement about to     *)
(* execute and stack is the chain of return addresses of the calls in      *)
(* progress.  Addresses and size_t values are words of WordMod values      *)
(* (the target has 2^32; the model keeps the wrap-around arithmetic on a   *)
(* small word).                                                            *)
(***************************************************************************)
EXTENDS Integers, Sequences, FiniteSets, TLC

VARIABLES
    pc,          \* statement about to execute
    stack,       \* return addresses of the calls in progress, innermost first
    sp,          \* stack-pointer register
    spAtEntry,   \* value of sp when kernel_main was entered ("none" before)
    bootRuns,    \* number of times boot has started
    phases,      \* lifecycle phases entered so far, in the order they were entered
    __bss,       \* linker symbol: start of the static-storage region
    __bss_end,   \* linker symbol: end of the static-storage region
    __stack_top, \* linker symbol: top of the stack region
    mem,         \* byte memory, address -> byte
    mem0,        \* memory as it was when the current memset/sbi_call was entered
    s,           \* kernel_main: the NUL-terminated string s
    i,           \* kernel_main: loop index i
    ch,          \* putchar: parameter ch
    args,        \* sbi_call: parameters <<arg0..arg5, fid, eid>>
    regs,        \* register frame a0..a7
    ret,         \* struct sbiret returned by the last sbi_call
    fw,          \* (error, value) the firmware produced at the last trap
    traps,       \* traps issued by the current/last sbi_call invocation
    trace,       \* register frames seen by the firmware, one per trap, in order
    buf,         \* memset: parameter buf
    c,           \* memset: parameter c
    n,           \* memset: parameter n
    ptr,         \* memset: local ptr
    wlog,        \* addresses stored to by the current/last memset, in order
    round,       \* which invocation of memset is running (1 = first)
    out,         \* printk: bytes still to be sent to the console
    wakeups      \* wfi instructions executed so far (saturating)

linker  == <<__bss, __bss_end, __stack_top>>
bootv   == <<sp, spAtEntry, bootRuns>>
memv    == <<mem, mem0>>
loopv   == <<s, i>>
sbiv    == <<args, regs, ret, fw, traps, trace>>
memsetv == <<buf, c, n, ptr, wlog, round>>
vars    == <<pc, stack, linker, bootv, phases, memv, loopv, ch, sbiv, memsetv, out, wakeups>>

----------------------------------------------------------------------------
(* Bounds *)

AddrSpace  == 3   \* number of byte addresses = number of size_t values
MaxStrLen  == 3   \* longest string handed to the character loop on its own
MaxWakeups == 2   \* the wfi counter saturates here

(* Program constants *)

ByteMod             == 256   \* uint8_t
ConsolePutcharEid   == 1
ConsolePutcharFid   == 0

WordMod == AddrSpace
Addr    == 0 .. (AddrSpace - 1)
Byte    == 0 .. (ByteMod - 1)

\* contents memory may hold at reset: indeterminate, sampled as all-zero/all-one bytes
ResetBytes == {0, 255}
\* values the stack pointer may hold at reset
ResetSp == {0, AddrSpace - 1}
\* what the firmware may answer: success with a payload, or SBI_ERR_NOT_SUPPORTED
FwResponses == {[error |-> 0, value |-> 5], [error |-> -2, value |-> 0]}
\* argument words used when the gateway is exercised on its own
ArgWords == {0, -1}
\* characters used when the character loop is exercised on its own: 'H' 'i' '\n'
LoopChars == {72, 105, 10}

\* "\n\nHello World!\n" with its terminating NUL
Greeting == <<10, 10, 72, 101, 108, 108, 111, 32, 87, 111, 114, 108, 100, 33, 10, 0>>
\* what printk("\n\nHello %s\n", "World!") sends
Printk1Out == <<10, 10, 72, 101, 108, 108, 111, 32, 87, 111, 114, 108, 100, 33, 10>>
\* what printk("1 + 2 = %d, %x\n", 1 + 2, 0x1234abcd) sends
Printk2Out == <<49, 32, 43, 32, 50, 32, 61, 32, 51, 44, 32,
                49, 50, 51, 52, 97, 98, 99, 100, 10>>

NoFrame == [a0 |-> 0, a1 |-> 0, a2 |-> 0, a3 |-> 0, a4 |-> 0, a5 |-> 0, a6 |-> 0, a7 |-> 0]
NoRet   == [error |-> 0, value |-> 0]

----------------------------------------------------------------------------
(* Pure parts of the code *)

\* return from a call: resume at the innermost return address
Return ==
    IF stack = <<>>
    THEN pc' = "done" /\ stack' = stack
    ELSE pc' = Head(stack) /\ stack' = Tail(stack)

\* the phase log after phase p has been entered (a phase is logged once)
Enter(p) ==
    IF \E k \in 1..Len(phases) : phases[k] = p THEN phases ELSE Append(phases, p)

\* char -> long when ch is passed as arg0 (char is unsigned on RISC-V)
CharToLongSigned(x) == IF x % ByteMod >= 128 THEN (x % ByteMod) - ByteMod ELSE x % ByteMod
CharToLong(x) == x % ByteMod

\* register long aN __asm__("aN") = ...
BindRegsSwapped(a) ==
    [a0 |-> a[1], a1 |-> a[2], a2 |-> a[3], a3 |-> a[4],
     a4 |-> a[5], a5 |-> a[6], a6 |-> a[8], a7 |-> a[7]]
BindRegs(a) ==
    [a0 |-> a[1], a1 |-> a[2], a2 |-> a[3], a3 |-> a[4],
     a4 |-> a[5], a5 |-> a[6], a6 |-> a[7], a7 |-> a[8]]

\* (struct sbiret){.error = a0, .value = a1}
SbiRetMapped(r) == [error |-> IF r.a0 # 0 THEN -1 ELSE 0, value |-> r.a1]
SbiRet(r) == [error |-> r.a0, value |-> r.a1]

\* (size_t)__bss_end - (size_t)__bss
ByteCountClamped(end, start) == IF end < start THEN 0 ELSE end - start
ByteCount(end, start) == (end - start) % WordMod

\* while (n--): the test uses the value before the decrement
MemsetCondPreDec(k) == ((k - 1) % WordMod) # 0
MemsetCond(k) == k # 0
PostDec(k) == (k - 1) % WordMod

\* *ptr = c, a char stored into a uint8_t
StoreByteAccum(x) == (mem[ptr] + x + 1) % ByteMod
StoreByte(x) == x % ByteMod

----------------------------------------------------------------------------
(* boot *)

\* mv sp, %[stack_top]
BootMvWrongSymbol ==
    /\ pc = "boot_mv"
    /\ sp' = __bss_end
    /\ bootRuns' = bootRuns + 1
    /\ pc' = "boot_j"
    /\ phases' = Enter("StackEstablished")
    /\ UNCHANGED <<stack, linker, spAtEntry, memv, loopv, ch, sbiv, memsetv, out, wakeups>>
BootMv ==
    /\ pc = "boot_mv"
    /\ sp' = __stack_top
    /\ bootRuns' = bootRuns + 1
    /\ pc' = "boot_j"
    /\ phases' = Enter("StackEstablished")
    /\ UNCHANGED <<stack, linker, spAtEntry, memv, loopv, ch, sbiv, memsetv, out, wakeups>>

\* j kernel_main
BootJ ==
    /\ pc = "boot_j"
    /\ pc' = "km_entry"
    /\ UNCHANGED phases
    /\ UNCHANGED <<stack, linker, bootv, memv, loopv, ch, sbiv, memsetv, out, wakeups>>

----------------------------------------------------------------------------
(* kernel_main *)

\* function entry (the first code that may use the stack); const char *s = ...; int i = 0
KmEntry ==
    /\ pc = "km_entry"
    /\ spAtEntry' = sp
    /\ i' = 0
    /\ pc' = "km_loop_test"
    /\ UNCHANGED phases
    /\ UNCHANGED <<stack, linker, sp, bootRuns, memv, s, ch, sbiv, memsetv, out, wakeups>>

\* s[i] != '\0' ; putchar(s[i])
KmLoopTest ==
    /\ pc = "km_loop_test"
    /\ IF s[i + 1] # 0
       THEN /\ ch' = s[i + 1]
            /\ stack' = <<"km_loop_inc">> \o stack
            /\ pc' = "putchar"
       ELSE /\ pc' = "km_printk1"
            /\ UNCHANGED <<ch, stack>>
    /\ UNCHANGED phases
    /\ UNCHANGED <<linker, bootv, memv, loopv, sbiv, memsetv, out, wakeups>>

\* i++
KmLoopIncSkip ==
    /\ pc = "km_loop_inc"
    /\ i' = IF i + 2 < Len(s) THEN i + 2 ELSE Len(s) - 1
    /\ pc' = "km_loop_test"
    /\ UNCHANGED phases
    /\ UNCHANGED <<stack, linker, bootv, memv, s, ch, sbiv, memsetv, out, wakeups>>
KmLoopInc ==
    /\ pc = "km_loop_inc"
    /\ i' = i + 1
    /\ pc' = "km_loop_test"
    /\ UNCHANGED phases
    /\ UNCHANGED <<stack, linker, bootv, memv, s, ch, sbiv, memsetv, out, wakeups>>

\* printk("\n\nHello %s\n", "World!")
KmPrintk1 ==
    /\ pc = "km_printk1"
    /\ out' = Printk1Out
    /\ stack' = <<"km_printk2">> \o stack
    /\ pc' = "printk"
    /\ UNCHANGED phases
    /\ UNCHANGED <<linker, bootv, memv, loopv, ch, sbiv, memsetv, wakeups>>

\* printk("1 + 2 = %d, %x\n", 1 + 2, 0x1234abcd)
KmPrintk2 ==
    /\ pc = "km_printk2"
    /\ out' = Printk2Out
    /\ stack' = <<"km_memset">> \o stack
    /\ pc' = "printk"
    /\ UNCHANGED phases
    /\ UNCHANGED <<linker, bootv, memv, loopv, ch, sbiv, memsetv, wakeups>>

\* memset(__bss, 0, (size_t)__bss_end - (size_t)__bss)
KmMemset ==
    /\ pc = "km_memset"
    /\ buf' = __bss
    /\ c' = 0
    /\ n' = ByteCount(__bss_end, __bss)
    /\ stack' = <<"km_idle">> \o stack
    /\ pc' = "memset"
    /\ UNCHANGED phases
    /\ UNCHANGED <<linker, bootv, memv, loopv, ch, sbiv, ptr, wlog, round, out, wakeups>>

\* for (;;) wfi
WfiFallsThrough ==
    /\ pc = "km_idle"
    /\ wakeups' = IF wakeups < MaxWakeups THEN wakeups + 1 ELSE wakeups
    /\ Return
    /\ phases' = Enter("Idle")
    /\ UNCHANGED <<linker, bootv, memv, loopv, ch, sbiv, memsetv, out>>
Wfi ==
    /\ pc = "km_idle"
    /\ wakeups' = IF wakeups < MaxWakeups THEN wakeups + 1 ELSE wakeups
    /\ pc' = "km_idle"
    /\ phases' = Enter("Idle")
    /\ UNCHANGED <<stack, linker, bootv, memv, loopv, ch, sbiv, memsetv, out>>

----------------------------------------------------------------------------
(* printk: sends its formatted output through putchar, one byte per call *)

Printk ==
    /\ pc = "printk"
    /\ IF out # <<>>
       THEN /\ ch' = Head(out)
            /\ out' = Tail(out)
            /\ stack' = <<"printk">> \o stack
            /\ pc' = "putchar"
       ELSE /\ Return
            /\ UNCHANGED <<ch, out>>
    /\ UNCHANGED phases
    /\ UNCHANGED <<linker, bootv, memv, loopv, sbiv, memsetv, wakeups>>

----------------------------------------------------------------------------
(* putchar *)

\* sbi_call(ch, 0, 0, 0, 0, 0, 0, 1)
Putchar ==
    /\ pc = "putchar"
    /\ args' = <<CharToLong(ch), 0, 0, 0, 0, 0, ConsolePutcharFid, ConsolePutcharEid>>
    /\ stack' = <<"putchar_ret">> \o stack
    /\ pc' = "sbi_bind"
    /\ UNCHANGED phases
    /\ UNCHANGED <<linker, bootv, memv, loopv, ch, regs, ret, fw, traps, trace, memsetv, out, wakeups>>

\* the result of sbi_call is dropped; return
PutcharRet ==
    /\ pc = "putchar_ret"
    /\ Return
    /\ UNCHANGED phases
    /\ UNCHANGED <<linker, bootv, memv, loopv, ch, sbiv, memsetv, out, wakeups>>

----------------------------------------------------------------------------
(* sbi_call *)

\* bind the eight parameters to a0..a7
SbiBind ==
    /\ pc = "sbi_bind"
    /\ regs' = BindRegs(args)
    /\ traps' = 0
    /\ mem0' = mem
    /\ pc' = "sbi_ecall"
    /\ UNCHANGED phases
    /\ UNCHANGED <<stack, linker, bootv, mem, loopv, ch, args, ret, fw, trace, memsetv, out, wakeups>>

\* ecall: the firmware sees the frame and answers in a0, a1
SbiEcall ==
    /\ pc = "sbi_ecall"
    /\ \E r \in FwResponses :
          /\ fw' = r
          /\ regs' = [regs EXCEPT !.a0 = r.error, !.a1 = r.value]
    /\ trace' = Append(trace, regs)
    /\ traps' = traps + 1
    /\ pc' = "sbi_ret"
    /\ phases' = Enter("Running")
    /\ UNCHANGED <<stack, linker, bootv, memv, loopv, ch, args, ret, memsetv, out, wakeups>>

\* return (struct sbiret){.error = a0, .value = a1}
SbiReturn ==
    /\ pc = "sbi_ret"
    /\ ret' = SbiRet(regs)
    /\ Return
    /\ UNCHANGED phases
    /\ UNCHANGED <<linker, bootv, memv, loopv, ch, args, regs, fw, traps, trace, memsetv, out, wakeups>>

----------------------------------------------------------------------------
(* memset *)

\* uint8_t *ptr = (uint8_t *)buf
MemsetEntry ==
    /\ pc = "memset"
    /\ ptr' = buf
    /\ wlog' = <<>>
    /\ mem0' = mem
    /\ pc' = "memset_test"
    /\ UNCHANGED phases
    /\ UNCHANGED <<stack, linker, bootv, mem, loopv, ch, sbiv, buf, c, n, round, out, wakeups>>

\* while (n--)
MemsetTest ==
    /\ pc = "memset_test"
    /\ pc' = IF MemsetCond(n) THEN "memset_store" ELSE "memset_ret"
    /\ n' = PostDec(n)
    /\ UNCHANGED phases
    /\ UNCHANGED <<stack, linker, bootv, memv, loopv, ch, sbiv, buf, c, ptr, wlog, round, out, wakeups>>

\* *ptr++ = c
MemsetStore ==
    /\ pc = "memset_store"
    /\ mem' = [mem EXCEPT ![ptr] = StoreByte(c)]
    /\ wlog' = Append(wlog, ptr)
    /\ ptr' = (ptr + 1) % WordMod
    /\ pc' = "memset_test"
    /\ UNCHANGED phases
    /\ UNCHANGED <<stack, linker, bootv, mem0, loopv, ch, sbiv, buf, c, n, round, out, wakeups>>

\* return buf
MemsetRet ==
    /\ pc = "memset_ret"
    /\ Return
    /\ phases' = Enter("StorageZeroed")
    /\ UNCHANGED <<linker, bootv, memv, loopv, ch, sbiv, memsetv, out, wakeups>>

----------------------------------------------------------------------------
(* The whole program, from reset *)

\* everything but the program counter, the boot state, the linker symbols,
\* the memory contents and the inputs of the code under test
InitLocals ==
    /\ stack = <<>>
    /\ mem0 = mem
    /\ i = 0
    /\ regs = NoFrame
    /\ ret = NoRet
    /\ fw = NoRet
    /\ traps = 0
    /\ trace = <<>>
    /\ buf = 0
    /\ c = 0
    /\ n = 0
    /\ ptr = 0
    /\ wlog = <<>>
    /\ round = 1
    /\ out = <<>>
    /\ wakeups = 0

Init ==
    /\ pc = "boot_mv"
    /\ sp \in ResetSp
    /\ spAtEntry = "none"
    /\ bootRuns = 0
    /\ phases = <<"Reset">>
    /\ __bss \in Addr
    /\ __bss_end \in Addr
    /\ __bss <= __bss_end
    /\ __stack_top \in Addr
    /\ mem \in [Addr -> ResetBytes]
    /\ s = Greeting
    /\ ch = 0
    /\ args = <<0, 0, 0, 0, 0, 0, 0, 0>>
    /\ InitLocals

Next ==
    \/ BootMv
    \/ BootJ
    \/ KmEntry
    \/ KmLoopTest
    \/ KmLoopInc
    \/ KmPrintk1
    \/ KmPrintk2
    \/ Printk
    \/ Putchar
    \/ PutcharRet
    \/ SbiBind
    \/ SbiEcall
    \/ SbiReturn
    \/ KmMemset
    \/ MemsetEntry
    \/ MemsetTest
    \/ MemsetStore
    \/ MemsetRet
    \/ Wfi

Spec == Init /\ [][Next]_vars

\* the processor keeps executing instructions
FairSpec == Init /\ [][Next]_vars /\ WF_vars(Next)

----------------------------------------------------------------------------
(* The functions on their own, entered after boot with inputs drawn from   *)
(* bounded sets                                                            *)

\* state left by boot; one fixed memory layout
Booted ==
    /\ __stack_top = AddrSpace - 1
    /\ bootRuns = 1
    /\ phases = <<"Reset", "StackEstablished">>
    /\ sp = __stack_top
    /\ spAtEntry = __stack_top

\* memset as kernel_main calls it, for every pair of region bounds and every
\* memory content, then called a second time with the same arguments
MemsetBytes == {0, 1, 255}

InitMemset ==
    /\ pc = "km_memset"
    /\ Booted
    /\ __bss \in Addr
    /\ __bss_end \in Addr
    /\ mem \in [Addr -> MemsetBytes]
    /\ s = Greeting
    /\ ch = 0
    /\ args = <<0, 0, 0, 0, 0, 0, 0, 0>>
    /\ InitLocals

MemsetAgain ==
    /\ pc = "km_idle"
    /\ round = 1
    /\ round' = 2
    /\ pc' = "km_memset"
    /\ UNCHANGED phases
    /\ UNCHANGED <<stack, linker, bootv, memv, loopv, ch, sbiv, buf, c, n, ptr, wlog, out, wakeups>>

NextMemset ==
    \/ KmMemset
    \/ MemsetEntry
    \/ MemsetTest
    \/ MemsetStore
    \/ MemsetRet
    \/ MemsetAgain

SpecMemset == InitMemset /\ [][NextMemset]_vars

\* sbi_call for every combination of argument words
InitSbi ==
    /\ pc = "sbi_bind"
    /\ Booted
    /\ __bss = 0
    /\ __bss_end = AddrSpace - 1
    /\ mem \in [Addr -> ResetBytes]
    /\ s = Greeting
    /\ ch = 0
    /\ args \in [1..8 -> ArgWords]
    /\ InitLocals

NextSbi ==
    \/ SbiBind
    \/ SbiEcall
    \/ SbiReturn

SpecSbi == InitSbi /\ [][NextSbi]_vars

\* putchar for every byte
InitPutchar ==
    /\ pc = "putchar"
    /\ Booted
    /\ __bss = 0
    /\ __bss_end = AddrSpace - 1
    /\ mem \in [Addr -> ResetBytes]
    /\ s = Greeting
    /\ ch \in Byte
    /\ args = <<0, 0, 0, 0, 0, 0, 0, 0>>
    /\ InitLocals

NextPutchar ==
    \/ Putchar
    \/ PutcharRet
    \/ SbiBind
    \/ SbiEcall
    \/ SbiReturn

SpecPutchar == InitPutchar /\ [][NextPutchar]_vars

\* kernel_main's character loop for every short NUL-terminated string
RECURSIVE StringsOfLen(_)
StringsOfLen(k) ==
    IF k = 0 THEN {<<>>}
    ELSE {<<x>> \o str : x \in LoopChars, str \in StringsOfLen(k - 1)}

LoopStrings ==
    {Greeting} \cup {str \o <<0>> : str \in UNION {StringsOfLen(k) : k \in 0..MaxStrLen}}

InitLoop ==
    /\ pc = "km_entry"
    /\ __stack_top = AddrSpace - 1
    /\ bootRuns = 1
    /\ phases = <<"Reset", "StackEstablished">>
    /\ sp = __stack_top
    /\ spAtEntry = "none"
    /\ __bss = 0
    /\ __bss_end = AddrSpace - 1
    /\ mem \in [Addr -> ResetBytes]
    /\ s \in LoopStrings
    /\ ch = 0
    /\ args = <<0, 0, 0, 0, 0, 0, 0, 0>>
    /\ InitLocals

NextLoop ==
    \/ KmEntry
    \/ KmLoopTest
    \/ KmLoopInc
    \/ Putchar
    \/ PutcharRet
    \/ SbiBind
    \/ SbiEcall
    \/ SbiReturn

SpecLoop == InitLoop /\ [][NextLoop]_vars

----------------------------------------------------------------------------
(* Properties *)

InBoot     == pc \in {"boot_mv", "boot_j"}
InMemset   == pc \in {"memset", "memset_test", "memset_store", "memset_ret"}
InSbiCall  == pc \in {"sbi_bind", "sbi_ecall", "sbi_ret"}
InRegion(a) == __bss <= a /\ a < __bss_end
PutcharFrame(x) ==
    [a0 |-> x, a1 |-> 0, a2 |-> 0, a3 |-> 0, a4 |-> 0, a5 |-> 0, a6 |-> 0, a7 |-> 1]

\* C1: the lifecycle phases are entered in the order Reset, StackEstablished,
\* StorageZeroed, Running, Idle, none skipped: memset has zeroed
\* [__bss, __bss_end) and returned before the first Call Gateway trap, and the
\* wfi loop is entered after both.
PhaseOrder == <<"Reset", "StackEstablished", "StorageZeroed", "Running", "Idle">>

C1_PhasesInOrder ==
    /\ Len(phases) <= Len(PhaseOrder)
    /\ \A k \in 1..Len(phases) : phases[k] = PhaseOrder[k]

\* C2: for start <= end, once memset(start, 0, end - start) has returned every
\* byte in [start, end) is zero and every byte outside holds the value it had
\* before the call (also while the call is running); when start = end nothing
\* is written.
C2_ZeroesExactlyTheRange ==
    (round = 1 /\ __bss <= __bss_end) =>
        /\ (InMemset /\ pc # "memset") \/ pc = "km_idle" =>
               \A a \in Addr : ~InRegion(a) => mem[a] = mem0[a]
        /\ pc = "km_idle" =>
               /\ \A a \in Addr : InRegion(a) => mem[a] = 0
               /\ (__bss = __bss_end => wlog = <<>> /\ mem = mem0)

C2_Witness ==
    /\ pc = "km_idle" /\ round = 1
    /\ __bss < __bss_end
    /\ \E a \in Addr : InRegion(a) /\ mem0[a] = 255 /\ mem[a] = 0
    /\ \E a \in Addr : ~InRegion(a) /\ mem[a] = 255

\* C3: at the trap a0..a5 hold arg0..arg5, a6 holds fid and a7 holds eid; the
\* pair returned is (a0, a1) as they are after the trap; a2..a7 and memory are
\* as they were when sbi_call was entered.
C3_FrameAndResult ==
    /\ traps > 0 =>
          LET f == trace[Len(trace)] IN
          /\ f.a0 = args[1] /\ f.a1 = args[2] /\ f.a2 = args[3] /\ f.a3 = args[4]
          /\ f.a4 = args[5] /\ f.a5 = args[6] /\ f.a6 = args[7] /\ f.a7 = args[8]
          /\ regs.a2 = args[3] /\ regs.a3 = args[4] /\ regs.a4 = args[5]
          /\ regs.a5 = args[6] /\ regs.a6 = args[7] /\ regs.a7 = args[8]
    /\ pc = "done" => ret.error = regs.a0 /\ ret.value = regs.a1
    /\ mem = mem0

C3_Witness ==
    /\ pc = "done"
    /\ args[7] # args[8] /\ args[1] # args[2]
    /\ ret.error = -2 /\ ret.value = 0
    /\ Len(trace) = 1

\* C4: one invocation of sbi_call issues exactly one trap and returns the
\* firmware's (error, value) as it is, whether error is zero or not.
C4_OneTrapResultVerbatim ==
    /\ pc = "sbi_ret" => traps = 1 /\ Len(trace) = 1
    /\ pc = "done" => traps = 1 /\ Len(trace) = 1 /\ ret = fw

C4_Witness ==
    pc = "done" /\ fw.error = -2 /\ ret.error = -2 /\ traps = 1

\* C5: putchar(ch) makes exactly one Call Gateway invocation, with eid 1,
\* fid 0, arg0 = ch and arg1..arg5 zero, and completes the same way whatever
\* the firmware answered.
C5_PutcharFrame ==
    /\ Len(trace) <= 1
    /\ pc \in {"sbi_ret", "putchar_ret", "done"} => trace = <<PutcharFrame(ch)>>

C5_Witness ==
    pc = "done" /\ ch >= 128 /\ trace = <<PutcharFrame(ch)>> /\ fw.error # 0

\* C6: the character loop over a NUL-terminated string of length n issues
\* exactly n console calls whose arg0 are the bytes of the string in order,
\* each call finished before the next is started, and none for the NUL.
C6_LoopTrace ==
    /\ \A k \in 1..Len(trace) : k < Len(s) /\ trace[k] = PutcharFrame(s[k])
    /\ pc = "km_loop_test" => Len(trace) = i /\ stack = <<>>
    /\ pc = "putchar" => Len(trace) = i
    /\ pc = "km_loop_inc" => Len(trace) = i + 1
    /\ pc = "km_printk1" => Len(trace) = Len(s) - 1

C6_Witness ==
    pc = "km_printk1" /\ s = <<72, 105, 10, 0>> /\ Len(trace) = 3
    /\ trace[1].a0 = 72 /\ trace[2].a0 = 105 /\ trace[3].a0 = 10

\* C7: boot runs once; it makes no call, no store and no trap before sp is
\* set; once it has handed over to kernel_main sp equals __stack_top, it was
\* so when kernel_main was entered, and control never comes back to boot nor
\* leaves kernel_main.
C7_StackBeforeUse ==
    /\ pc = "boot_mv" => bootRuns = 0
    /\ pc = "boot_j" => bootRuns = 1 /\ sp = __stack_top
    /\ InBoot => stack = <<>> /\ trace = <<>> /\ mem = mem0 /\ spAtEntry = "none"
    /\ ~InBoot => bootRuns = 1 /\ sp = __stack_top
    /\ pc # "km_entry" /\ ~InBoot => spAtEntry = __stack_top
    /\ pc # "done"

C7_Witness ==
    pc = "km_loop_test" /\ spAtEntry = __stack_top /\ bootRuns = 1 /\ __stack_top # __bss_end

\* C9: with __bss <= __bss_end and every call returning, kernel_main reaches
\* the wfi loop and stays in it for ever; from then on there is no trap, no
\* store and no return.
C9_EventuallyIdleForever ==
    /\ <>[](pc = "km_idle")
    /\ [][pc = "km_idle" => (pc' = "km_idle" /\ trace' = trace /\ mem' = mem /\ stack' = stack)]_vars

C9_Witness ==
    pc = "km_idle" /\ wakeups = MaxWakeups /\ Len(trace) = Len(Greeting) - 1 + Len(Printk1Out) + Len(Printk2Out)

\* C8: for start <= end, a second memset(start, 0, end - start) leaves memory
\* as the first one left it, and the bytes the first one stored are zero
\* whatever they held before.
C8_Idempotent ==
    (pc = "km_idle" /\ __bss <= __bss_end) =>
        /\ round = 2 => mem = mem0
        /\ \A k \in 1..Len(wlog) : mem[wlog[k]] = 0

C8_Witness ==
    /\ pc = "km_idle" /\ round = 2 /\ __bss < __bss_end
    /\ mem = mem0 /\ wlog # <<>>
    /\ \E a \in Addr : ~InRegion(a) /\ mem[a] # 0

\* C10: the count handed to memset is __bss_end - __bss as an unsigned word
\* (so WordMod - (__bss - __bss_end) when __bss_end < __bss), memset stores
\* exactly that many bytes, at buf, buf+1, ... in this order, and n has
\* wrapped to the largest word when the loop is left.
C10_ByteCountAndWrites ==
    LET count == IF __bss_end >= __bss THEN __bss_end - __bss
                 ELSE WordMod - (__bss - __bss_end)
    IN  /\ pc = "memset" => n = count /\ buf = __bss
        /\ InMemset /\ pc # "memset" =>
              /\ Len(wlog) <= count
              /\ \A k \in 1..Len(wlog) : wlog[k] = (buf + k - 1) % WordMod
        /\ pc \in {"memset_ret", "km_idle"} => Len(wlog) = count /\ n = WordMod - 1

C10_Witness ==
    /\ pc = "km_idle" /\ round = 1
    /\ __bss_end < __bss
    /\ Len(wlog) = WordMod - (__bss - __bss_end)
    /\ wlog # <<>>

====
